---- MODULE Spec2Model ----
(***************************************************************************)
(* A model of the ingestion subsystem of deepwiki:                         *)
(*   - tools/repo_fetcher.py   _fetch_git: URL decomposition, workspace    *)
(*     slot, clone subprocess with timeout, scan pipeline, cleanup;        *)
(*   - workflow/nodes.py       parse_code over tools/code_parser.py parse; *)
(*   - utils/gitignore_checker.py  GitignoreChecker.                       *)
(* Text is modelled as a sequence of one-token strings so that strip,      *)
(* split, replace and fnmatch are computed the way the code computes them. *)
(***************************************************************************)
EXTENDS Integers, Sequences, FiniteSets, TLC

(***************************************************************************)
(* Bounds of the model.                                                    *)
(***************************************************************************)
\* number of fetch calls that may be in flight in one event loop
NumRuns == 2
\* longest URL path (in tokens) a solo fetch is called with
MaxPathLen == 5
\* most files in the inventory handed to parse_code
MaxFiles == 3
\* most lines in the ignore file
MaxLines == 2
\* largest depth cap of a tree build
MaxDepth == 3
\* most definition and block nodes in a syntax tree
MaxNodes == 3

Runs == 1..NumRuns

(***************************************************************************)
(* repo_fetcher.py, lines 47-58: URL decomposition and the workspace path. *)
(* A URL path is a sequence of tokens; ".git" is one token.                *)
(***************************************************************************)
PathChars == {"/", "o", ".git"}

AllPaths == UNION {[1..k -> PathChars] : k \in 0..MaxPathLen}

\* the URL paths the concurrent runs are called with:
\* /o , /o/o , /o/o.git , /o/oo
RepoUrls ==
    { <<"/", "o">>,
      <<"/", "o", "/", "o">>,
      <<"/", "o", "/", "o", ".git">>,
      <<"/", "o", "/", "o", "o">> }

RECURSIVE LStrip(_)
LStrip(s) == IF s # <<>> /\ Head(s) = "/" THEN LStrip(Tail(s)) ELSE s

RECURSIVE RStrip(_)
RStrip(s) ==
    IF s # <<>> /\ s[Len(s)] = "/" THEN RStrip(SubSeq(s, 1, Len(s) - 1)) ELSE s

\* str.strip("/")
strip(s) == RStrip(LStrip(s))

\* str.split("/"): "" gives [""], "a//b" gives ["a", "", "b"]
RECURSIVE split(_)
split(s) ==
    IF \E i \in 1..Len(s) : s[i] = "/"
    THEN LET i == CHOOSE k \in 1..Len(s) :
                     s[k] = "/" /\ \A j \in 1..(k - 1) : s[j] # "/"
         IN  <<SubSeq(s, 1, i - 1)>> \o split(SubSeq(s, i + 1, Len(s)))
    ELSE <<s>>

\* a plausible slip: the path is split without stripping its slashes first
path_parts_unstripped(path) == split(path)

\* line 48: parsed_url.path.strip("/").split("/")
path_parts(path) == split(strip(path))

\* line 50: the guard of the ValueError
url_invalid(path) == Len(path_parts(path)) < 2

\* line 54
owner_of(path) == path_parts(path)[1]

\* line 55: path_parts[1].replace(".git", "")
repo_name_of(path) == SelectSeq(path_parts(path)[2], LAMBDA c : c # ".git")

\* line 58: settings.temp_dir / f"{owner}_{repo_name}"
clone_dir_of(path) == owner_of(path) \o <<"_">> \o repo_name_of(path)

NoDir == <<>>

\* the slot an earlier run for /o/o left behind
SeedSlot == clone_dir_of(<<"/", "o", "/", "o">>)

(***************************************************************************)
(* State.                                                                  *)
(***************************************************************************)
VARIABLES
    \* ---- repo_fetcher.py ------------------------------------------------
    repo_url,     \* run -> the URL path the run is called with
    pc,           \* run -> position of the coroutine in _fetch_git
    clone_dir,    \* run -> workspace path (NoDir before line 58)
    proc,         \* run -> state of the git clone subprocess
    stderr,       \* run -> captured stderr of the subprocess
    exc,          \* run -> exception being handled by the except clause
    out,          \* run -> what reached the caller
    steps,        \* run -> pipeline steps performed after the clone
    disk,         \* workspace path -> state of the directory on disk (the
                  \* paths the calls can touch and the one an earlier run used)
    running,      \* the run whose coroutine holds the event loop (0: none)
    \* ---- nodes.py parse_code / code_parser.py parse -----------------------
    included,     \* the scanner's inventory, with what is on disk for each path
    repo_files,   \* state["repository"].files
    parsed_file,  \* the accumulator of parse_code
    file_idx,     \* position of the for loop
    stage,        \* state["stage"]
    error,        \* state["error"]
    vector_store, \* files handed to vector_store.add_code_file
    node_pc,      \* position of the parse_code node
    \* ---- gitignore_checker.py ---------------------------------------------
    directory,         \* self.directory, as the names on the path to it
    gitignore_where,   \* which ignore file exists: "given", "default" or "none"
    gitignore_content, \* the lines of the ignore file that is read
    folder_patterns,   \* self.folder_patterns
    file_patterns,     \* self.file_patterns
    rglob_pending,     \* entries base_path.rglob('*') has yet to yield
    visited,           \* entries the loop has looked at
    not_ignored_files, \* the result list
    gi_pc,             \* position in the checker's life
    \* ---- repo_fetcher.py _scan_directory -----------------------------------
    scan_layout,  \* the entries below the scanned path
    scan_stack,   \* directories os.walk has yet to yield, next first
    scan_visited, \* directories os.walk has yielded
    files,        \* the result list
    scan_pc,      \* position of _scan_directory
    \* ---- repo_fetcher.py _build_structure ----------------------------------
    tree_layout,  \* the entries below the path the tree is built for
    unreadable,   \* the directories whose listing raises PermissionError
    max_depth,    \* the depth cap
    structure,    \* the nodes of the tree, in the order they are appended
    build_stack,  \* the activations of _build_structure_recursive, innermost first
    perm_errors,  \* the directories where the except clause ran
    build_pc,     \* position of _build_structure
    \* ---- python_parser.py / code_parser.py ---------------------------------
    ast_tree,               \* the syntax tree of the file
    todo,                   \* the queue of ast.walk
    functions_and_classes,  \* the tuples of get_functions_and_classes
    file_objects,           \* the records of generate_file_structure
    classes,                \* result["classes"] of parse
    functions,              \* result["functions"] of parse
    py_pc,                  \* position of the extraction
    \* ---- workflow/nodes.py, workflow/graph.py ------------------------------
    errors,         \* state['errors']: whether the key is there, and the list
    documentation,  \* state['documentation']
    wf_pc           \* the node of the graph that runs

fetchVars ==
    <<repo_url, pc, clone_dir, proc, stderr, exc, out, steps, disk, running>>
parseVars ==
    <<included, repo_files, parsed_file, file_idx, stage, error, vector_store, node_pc>>
ignoreVars ==
    <<directory, gitignore_where, gitignore_content, folder_patterns, file_patterns,
      rglob_pending, visited, not_ignored_files, gi_pc>>
scanVars == <<scan_layout, scan_stack, scan_visited, files, scan_pc>>
treeVars ==
    <<tree_layout, unreadable, max_depth, structure, build_stack, perm_errors, build_pc>>
pyVars ==
    <<ast_tree, todo, functions_and_classes, file_objects, classes, functions, py_pc>>
wfVars == <<errors, documentation, wf_pc>>
restVars == <<scanVars, treeVars, pyVars, wfVars>>
vars == <<fetchVars, parseVars, ignoreVars, restVars>>
notFetch == <<parseVars, ignoreVars, restVars>>

(***************************************************************************)
(* The directory at a workspace path:                                      *)
(*   absent   nothing there (clone_dir.exists() is False)                  *)
(*   empty    the directory exists and holds nothing                       *)
(*   present  the directory exists and holds entries                       *)
(*   locked   a directory this user cannot remove (shutil.rmtree raises)   *)
(***************************************************************************)
DirStates == {"absent", "empty", "present", "locked"}

\* subprocess states; "killing": SIGKILL sent (process.kill()), not yet dead
ProcStates ==
    {"none", "starting", "writing", "exited_ok", "exited_err", "killing", "dead"}
Alive == {"starting", "writing", "killing"}

\* the run owns its workspace from the start of its clone until it returns or fails
Owns(r) ==
    pc[r] \in {"await_clone", "read_branch", "scan", "languages", "structure",
               "cleanup", "cleanup_top"}

FetchIdle ==
    /\ pc = [r \in Runs |-> "idle"]
    /\ clone_dir = [r \in Runs |-> NoDir]
    /\ proc = [r \in Runs |-> "none"]
    /\ stderr = [r \in Runs |-> "none"]
    /\ exc = [r \in Runs |-> "none"]
    /\ out = [r \in Runs |-> "none"]
    /\ steps = [r \in Runs |-> {}]
    /\ running = 0

\* what earlier runs left on disk: anything, at the slots in `slots`
DiskInit(slots) ==
    disk \in [slots -> DirStates]

SlotsOf(urls) == {clone_dir_of(u) : u \in {v \in urls : ~url_invalid(v)}}

(***************************************************************************)
(* _fetch_git, one action per step.  The code between two awaits runs      *)
(* without yielding the event loop: `running` is taken by the first step   *)
(* of such a stretch and released where the coroutine suspends or ends.    *)
(* The git subprocess is an OS process and runs in parallel with it.       *)
(***************************************************************************)

\* lines 47-58
ParseUrl(r) ==
    /\ pc[r] = "idle"
    /\ running = 0
    /\ IF url_invalid(repo_url[r])
       THEN /\ pc' = [pc EXCEPT ![r] = "failed"]
            /\ out' = [out EXCEPT ![r] = "ValueError"]
            /\ UNCHANGED <<clone_dir, running>>
       ELSE /\ pc' = [pc EXCEPT ![r] = "rm_pre"]
            /\ clone_dir' = [clone_dir EXCEPT ![r] = clone_dir_of(repo_url[r])]
            /\ running' = r
            /\ UNCHANGED out
    /\ UNCHANGED <<repo_url, proc, stderr, exc, steps, disk>>
    /\ UNCHANGED notFetch

\* lines 61-62: clone_dir.exists(), then shutil.rmtree removes the entries
\* below clone_dir (outside the try: an error goes straight to the caller)
RemoveExisting(r) ==
    /\ pc[r] = "rm_pre"
    /\ running = r
    /\ LET d == clone_dir[r] IN
       CASE disk[d] = "absent" ->
              /\ pc' = [pc EXCEPT ![r] = "spawn"]
              /\ UNCHANGED <<disk, out, running>>
         [] disk[d] = "locked" ->
              /\ pc' = [pc EXCEPT ![r] = "failed"]
              /\ out' = [out EXCEPT ![r] = "PermissionError"]
              /\ running' = 0
              /\ UNCHANGED disk
         [] OTHER ->
              /\ disk' = [disk EXCEPT ![d] = "empty"]
              /\ pc' = [pc EXCEPT ![r] = "rm_pre_top"]
              /\ UNCHANGED <<out, running>>
    /\ UNCHANGED <<repo_url, clone_dir, proc, stderr, exc, steps>>
    /\ UNCHANGED notFetch

\* line 62, the end of shutil.rmtree: os.rmdir(clone_dir)
RemoveExistingTop(r) ==
    /\ pc[r] = "rm_pre_top"
    /\ running = r
    /\ LET d == clone_dir[r] IN
       IF disk[d] = "empty"
       THEN /\ disk' = [disk EXCEPT ![d] = "absent"]
            /\ pc' = [pc EXCEPT ![r] = "spawn"]
            /\ UNCHANGED <<out, running>>
       ELSE \* entries were written meanwhile: Directory not empty
            /\ pc' = [pc EXCEPT ![r] = "failed"]
            /\ out' = [out EXCEPT ![r] = "OSError"]
            /\ running' = 0
            /\ UNCHANGED disk
    /\ UNCHANGED <<repo_url, clone_dir, proc, stderr, exc, steps>>
    /\ UNCHANGED notFetch

\* lines 69-73: the subprocess is started; the coroutine then awaits it
StartClone(r) ==
    /\ pc[r] = "spawn"
    /\ running = r
    /\ proc' = [proc EXCEPT ![r] = "starting"]
    /\ pc' = [pc EXCEPT ![r] = "await_clone"]
    /\ running' = 0
    /\ UNCHANGED <<repo_url, clone_dir, stderr, exc, out, steps, disk>>
    /\ UNCHANGED notFetch

\* lines 69-73: create_subprocess_exec raises (no git executable)
StartCloneFails(r) ==
    /\ pc[r] = "spawn"
    /\ running = r
    /\ exc' = [exc EXCEPT ![r] = "FileNotFoundError"]
    /\ pc' = [pc EXCEPT ![r] = "cleanup"]
    /\ UNCHANGED <<repo_url, clone_dir, proc, stderr, out, steps, disk, running>>
    /\ UNCHANGED notFetch

\* lines 81-83: the deadline expires first; process.kill() sends SIGKILL and
\* returns, nothing waits for the process to end; TimeoutError is raised
CloneTimedOut(r) ==
    /\ pc[r] = "await_clone"
    /\ running = 0
    /\ proc[r] \in {"starting", "writing"}
    /\ proc' = [proc EXCEPT ![r] = "killing"]
    /\ exc' = [exc EXCEPT ![r] = "TimeoutError"]
    /\ pc' = [pc EXCEPT ![r] = "cleanup"]
    /\ running' = r
    /\ UNCHANGED <<repo_url, clone_dir, stderr, out, steps, disk>>
    /\ UNCHANGED notFetch

\* line 87: stderr.decode() is a strict UTF-8 decode
decode_raises(bytes) == bytes = "undecodable"

\* lines 77-87: communicate() returns; the return code is examined
CommunicateReturns(r) ==
    /\ pc[r] = "await_clone"
    /\ running = 0
    /\ proc[r] \in {"exited_ok", "exited_err"}
    /\ running' = r
    /\ IF proc[r] = "exited_err"
       THEN /\ exc' = [exc EXCEPT ![r] =
                          IF decode_raises(stderr[r])
                          THEN "UnicodeDecodeError" ELSE "RuntimeError"]
            /\ pc' = [pc EXCEPT ![r] = "cleanup"]
       ELSE /\ pc' = [pc EXCEPT ![r] = "read_branch"]
            /\ UNCHANGED exc
    /\ UNCHANGED <<repo_url, clone_dir, proc, stderr, out, steps, disk>>
    /\ UNCHANGED notFetch

\* lines 77-80 and 116: the task is cancelled while it awaits the clone.
\* CancelledError is a BaseException: neither `except asyncio.TimeoutError`
\* nor `except Exception` catches it
Cancelled(r) ==
    /\ pc[r] = "await_clone"
    /\ running = 0
    /\ pc' = [pc EXCEPT ![r] = "failed"]
    /\ out' = [out EXCEPT ![r] = "CancelledError"]
    /\ UNCHANGED <<repo_url, clone_dir, proc, stderr, exc, steps, disk, running>>
    /\ UNCHANGED notFetch

\* lines 90-91
ReadBranch(r) ==
    /\ pc[r] = "read_branch"
    /\ running = r
    /\ steps' = [steps EXCEPT ![r] = @ \cup {"branch"}]
    /\ pc' = [pc EXCEPT ![r] = "scan"]
    /\ UNCHANGED <<repo_url, clone_dir, proc, stderr, exc, out, disk, running>>
    /\ UNCHANGED notFetch

\* lines 90-91: Repo(clone_dir) or active_branch raises (detached HEAD, no repository)
ReadBranchFails(r) ==
    /\ pc[r] = "read_branch"
    /\ running = r
    /\ exc' = [exc EXCEPT ![r] = "GitError"]
    /\ pc' = [pc EXCEPT ![r] = "cleanup"]
    /\ UNCHANGED <<repo_url, clone_dir, proc, stderr, out, steps, disk, running>>
    /\ UNCHANGED notFetch

\* lines 102-104
ScanDirectory(r) ==
    /\ pc[r] = "scan"
    /\ running = r
    /\ steps' = [steps EXCEPT ![r] = @ \cup {"scan"}]
    /\ pc' = [pc EXCEPT ![r] = "languages"]
    /\ UNCHANGED <<repo_url, clone_dir, proc, stderr, exc, out, disk, running>>
    /\ UNCHANGED notFetch

\* line 107
CalculateLanguages(r) ==
    /\ pc[r] = "languages"
    /\ running = r
    /\ steps' = [steps EXCEPT ![r] = @ \cup {"languages"}]
    /\ pc' = [pc EXCEPT ![r] = "structure"]
    /\ UNCHANGED <<repo_url, clone_dir, proc, stderr, exc, out, disk, running>>
    /\ UNCHANGED notFetch

\* lines 110-113
BuildStructure(r) ==
    /\ pc[r] = "structure"
    /\ running = r
    /\ steps' = [steps EXCEPT ![r] = @ \cup {"tree"}]
    /\ pc' = [pc EXCEPT ![r] = "returned"]
    /\ out' = [out EXCEPT ![r] = "Repository"]
    /\ running' = 0
    /\ UNCHANGED <<repo_url, clone_dir, proc, stderr, exc, disk>>
    /\ UNCHANGED notFetch

\* line 110: item.stat() raises something other than PermissionError
BuildStructureFails(r) ==
    /\ pc[r] = "structure"
    /\ running = r
    /\ exc' = [exc EXCEPT ![r] = "FileNotFoundError"]
    /\ pc' = [pc EXCEPT ![r] = "cleanup"]
    /\ UNCHANGED <<repo_url, clone_dir, proc, stderr, out, steps, disk, running>>
    /\ UNCHANGED notFetch

\* lines 116-120: clone_dir.exists(), then shutil.rmtree removes the entries
Cleanup(r) ==
    /\ pc[r] = "cleanup"
    /\ running = r
    /\ LET d == clone_dir[r] IN
       CASE disk[d] = "absent" ->
              /\ pc' = [pc EXCEPT ![r] = "failed"]
              /\ out' = [out EXCEPT ![r] = exc[r]]
              /\ running' = 0
              /\ UNCHANGED disk
         [] disk[d] = "locked" ->
              /\ pc' = [pc EXCEPT ![r] = "failed"]
              /\ out' = [out EXCEPT ![r] = "PermissionError"]
              /\ running' = 0
              /\ UNCHANGED disk
         [] OTHER ->
              /\ disk' = [disk EXCEPT ![d] = "empty"]
              /\ pc' = [pc EXCEPT ![r] = "cleanup_top"]
              /\ UNCHANGED <<out, running>>
    /\ UNCHANGED <<repo_url, clone_dir, proc, stderr, exc, steps>>
    /\ UNCHANGED notFetch

\* lines 119-120: the end of shutil.rmtree, then `raise e`
CleanupTop(r) ==
    /\ pc[r] = "cleanup_top"
    /\ running = r
    /\ LET d == clone_dir[r] IN
       IF disk[d] = "empty"
       THEN /\ disk' = [disk EXCEPT ![d] = "absent"]
            /\ out' = [out EXCEPT ![r] = exc[r]]
       ELSE \* entries were written meanwhile: rmtree raises inside the handler
            /\ out' = [out EXCEPT ![r] = "OSError"]
            /\ UNCHANGED disk
    /\ pc' = [pc EXCEPT ![r] = "failed"]
    /\ running' = 0
    /\ UNCHANGED <<repo_url, clone_dir, proc, stderr, exc, steps>>
    /\ UNCHANGED notFetch

(***************************************************************************)
(* The git clone subprocess of lines 69-73, as the operating system runs   *)
(* it.                                                                     *)
(***************************************************************************)

\* git creates the destination, or refuses a destination that is not empty
ProcMkdir(r) ==
    /\ proc[r] = "starting"
    /\ LET d == clone_dir[r] IN
       IF disk[d] \in {"absent", "empty"}
       THEN /\ disk' = [disk EXCEPT ![d] = "present"]
            /\ proc' = [proc EXCEPT ![r] = "writing"]
            /\ UNCHANGED stderr
       ELSE /\ proc' = [proc EXCEPT ![r] = "exited_err"]
            /\ stderr' = [stderr EXCEPT ![r] = "text"]
            /\ UNCHANGED disk
    /\ UNCHANGED <<repo_url, pc, clone_dir, exc, out, steps, running>>
    /\ UNCHANGED notFetch

\* a live process writes below the destination, creating missing directories
ProcWrite(r) ==
    /\ proc[r] \in {"writing", "killing"}
    /\ disk[clone_dir[r]] \in {"absent", "empty"}
    /\ disk' = [disk EXCEPT ![clone_dir[r]] = "present"]
    /\ UNCHANGED <<repo_url, pc, clone_dir, proc, stderr, exc, out, steps, running>>
    /\ UNCHANGED notFetch

ProcExitOk(r) ==
    /\ proc[r] = "writing"
    /\ proc' = [proc EXCEPT ![r] = "exited_ok"]
    /\ UNCHANGED <<repo_url, pc, clone_dir, stderr, exc, out, steps, disk, running>>
    /\ UNCHANGED notFetch

\* non-zero exit; the diagnostic bytes may or may not be valid UTF-8
ProcExitErr(r) ==
    /\ proc[r] \in {"starting", "writing"}
    /\ proc' = [proc EXCEPT ![r] = "exited_err"]
    /\ \E b \in {"text", "undecodable"} : stderr' = [stderr EXCEPT ![r] = b]
    /\ UNCHANGED <<repo_url, pc, clone_dir, exc, out, steps, disk, running>>
    /\ UNCHANGED notFetch

\* the SIGKILL takes effect
ProcDies(r) ==
    /\ proc[r] = "killing"
    /\ proc' = [proc EXCEPT ![r] = "dead"]
    /\ UNCHANGED <<repo_url, pc, clone_dir, stderr, exc, out, steps, disk, running>>
    /\ UNCHANGED notFetch

RunStep(r) ==
    \/ ParseUrl(r)
    \/ RemoveExisting(r)
    \/ RemoveExistingTop(r)
    \/ StartClone(r)
    \/ StartCloneFails(r)
    \/ CloneTimedOut(r)
    \/ CommunicateReturns(r)
    \/ Cancelled(r)
    \/ ReadBranch(r)
    \/ ReadBranchFails(r)
    \/ ScanDirectory(r)
    \/ CalculateLanguages(r)
    \/ BuildStructure(r)
    \/ BuildStructureFails(r)
    \/ Cleanup(r)
    \/ CleanupTop(r)

ProcStep(r) ==
    \/ ProcMkdir(r)
    \/ ProcWrite(r)
    \/ ProcExitOk(r)
    \/ ProcExitErr(r)
    \/ ProcDies(r)

(***************************************************************************)
(* nodes.py parse_code (lines 35-59) over code_parser.py parse (7-48).     *)
(* A file of the inventory is its position in the scanner's list, with     *)
(* what the filesystem and the parser will answer for it:                  *)
(*   wanted  should_parse_file(file_path)                                  *)
(*   cond    "ok", "missing" (no such file), "undecodable" (not UTF-8),    *)
(*           "unknown" (no parser for its language), "malformed"           *)
(***************************************************************************)
FileConds == {"ok", "missing", "undecodable", "unknown", "malformed"}

FileRecords(n) ==
    [1..n -> [wanted : BOOLEAN, cond : FileConds]]

Inventories == UNION {FileRecords(n) : n \in 0..MaxFiles}

\* workflow/edges.py is not part of the sources: the filter is an input bit
should_parse_file(f) == f.wanted

\* settings.LANGUAGE_MAP is not defined in the sources; the extension table
\* of the specification: an unmapped extension gives "unknown"
language_of(f) == IF f.cond = "unknown" THEN "unknown" ELSE "python"

\* parser_factory.py lines 11-16
get_parser_raises(language) == language \notin {"python", "java"}

\* the parser's parse method is not part of the sources: MalformedSource
parser_parse_raises(f) == f.cond = "malformed"

\* code_parser.py lines 8-48: every failure leaves parse as a ValueError
parse_raises(f) ==
    \/ f.cond = "missing"                       \* lines 10-12
    \/ f.cond = "undecodable"                   \* lines 14-19
    \/ get_parser_raises(language_of(f))        \* line 26
    \/ parser_parse_raises(f)                   \* line 28
                                                \* all re-raised at lines 46-48

\* code_parser.py lines 35-44: the result dict
parse_result(i) == [path |-> i]

\* nodes.py lines 38-39
ParseCodeStart ==
    /\ node_pc = "idle"
    /\ stage' = "parsing"
    /\ parsed_file' = <<>>
    /\ file_idx' = 1
    /\ node_pc' = "loop"
    /\ UNCHANGED <<included, repo_files, error, vector_store>>
    /\ UNCHANGED <<fetchVars, ignoreVars, restVars>>

\* nodes.py lines 44-49: one iteration of the loop over repo.files
ParseCodeFile ==
    /\ node_pc = "loop"
    /\ file_idx <= Len(repo_files)
    /\ LET i == repo_files[file_idx]
           f == included[i]
       IN  IF ~should_parse_file(f)
           THEN /\ file_idx' = file_idx + 1
                /\ UNCHANGED <<parsed_file, vector_store, stage, error, node_pc>>
           ELSE IF parse_raises(f)
           THEN \* lines 54-57: the exception leaves the loop
                /\ stage' = "error"
                /\ error' = <<"Error parsing file", i>>
                /\ node_pc' = "done"
                /\ UNCHANGED <<parsed_file, vector_store, file_idx>>
           ELSE /\ parsed_file' = Append(parsed_file, parse_result(i))
                /\ vector_store' = Append(vector_store, parse_result(i))
                /\ file_idx' = file_idx + 1
                /\ UNCHANGED <<stage, error, node_pc>>
    /\ UNCHANGED <<included, repo_files>>
    /\ UNCHANGED <<fetchVars, ignoreVars, restVars>>

\* nodes.py lines 51-52 and 59: the loop ended, the files are replaced
ParseCodeFinish ==
    /\ node_pc = "loop"
    /\ file_idx > Len(repo_files)
    /\ repo_files' = parsed_file
    /\ node_pc' = "done"
    /\ UNCHANGED <<included, parsed_file, file_idx, stage, error, vector_store>>
    /\ UNCHANGED <<fetchVars, ignoreVars, restVars>>

(***************************************************************************)
(* utils/gitignore_checker.py.  A name or a pattern is a sequence of       *)
(* characters, a path a sequence of names.                                 *)
(***************************************************************************)
n_build == <<"b", "u", "i", "l", "d">>
n_src == <<"s", "r", "c">>
n_tmp == <<"t", "m", "p">>
n_w == <<"w">>
n_x_log == <<"x", ".", "l", "o", "g">>
n_a_log == <<"a", ".", "l", "o", "g">>
n_a_py == <<"a", ".", "p", "y">>
n_b_py == <<"b", ".", "p", "y">>
n_m_py == <<"m", ".", "p", "y">>
n_n_py == <<"n", ".", "p", "y">>

\* the lines an ignore file is made of:  build/  *.log  " tmp/ "  #c  ""  ?.py
GitignoreLines ==
    { <<"b", "u", "i", "l", "d", "/">>,
      <<"*", ".", "l", "o", "g">>,
      <<" ", "t", "m", "p", "/", " ">>,
      <<"#", "c">>,
      <<>>,
      <<"?", ".", "p", "y">> }

GitignoreContents == UNION {[1..k -> GitignoreLines] : k \in 0..MaxLines}

\* where the checked directory lies:  w  and  tmp/w
Roots == { <<n_w>>, <<n_tmp, n_w>> }

\* what lies below the checked directory (paths relative to it)
Tree ==
    { [path |-> <<n_build>>, is_file |-> FALSE],
      [path |-> <<n_build, n_x_log>>, is_file |-> TRUE],
      [path |-> <<n_build, n_m_py>>, is_file |-> TRUE],
      [path |-> <<n_src>>, is_file |-> FALSE],
      [path |-> <<n_src, n_a_log>>, is_file |-> TRUE],
      [path |-> <<n_src, n_a_py>>, is_file |-> TRUE],
      [path |-> <<n_src, n_build>>, is_file |-> FALSE],
      [path |-> <<n_src, n_build, n_n_py>>, is_file |-> TRUE],
      [path |-> <<n_b_py>>, is_file |-> TRUE] }

Children(dir) ==
    {e \in Tree : Len(e.path) = Len(dir) + 1 /\ SubSeq(e.path, 1, Len(dir)) = dir}

\* every order in which a directory listing can come back
Perms(S) ==
    {f \in [1..Cardinality(S) -> S] : \A i, j \in 1..Cardinality(S) : f[i] = f[j] => i = j}

\* base_path.rglob('*'), line 105: the entries of a directory in the order
\* of its listing, then the same for each of its subdirectories in turn
RECURSIVE WalkDir(_), WalkDirs(_)
WalkDir(dir) ==
    UNION { {o \o rest :
                rest \in WalkDirs(SelectSeq(o, LAMBDA e : ~e.is_file))} :
            o \in Perms(Children(dir)) }
WalkDirs(ds) ==
    IF ds = <<>> THEN {<<>>}
    ELSE {a \o b : a \in WalkDir(Head(ds).path), b \in WalkDirs(Tail(ds))}

RglobOrders == WalkDir(<<>>)

\* str.strip(): whitespace off both ends
RECURSIVE ws_lstrip(_)
ws_lstrip(s) == IF s # <<>> /\ Head(s) = " " THEN ws_lstrip(Tail(s)) ELSE s
RECURSIVE ws_rstrip(_)
ws_rstrip(s) ==
    IF s # <<>> /\ s[Len(s)] = " " THEN ws_rstrip(SubSeq(s, 1, Len(s) - 1)) ELSE s
ws_strip(s) == ws_rstrip(ws_lstrip(s))

\* lines 39-54
parse_gitignore(content) ==
    SelectSeq([i \in 1..Len(content) |-> ws_strip(content[i])],
              LAMBDA line : line # <<>> /\ Head(line) # "#")

\* a plausible slip: the trailing slash is left on the folder patterns
split_folder_patterns_unstripped(patterns) ==
    SelectSeq(patterns, LAMBDA p : p[Len(p)] = "/")

\* lines 67-74: the patterns that end in "/", with the slashes removed
split_folder_patterns(patterns) ==
    LET folders == SelectSeq(patterns, LAMBDA p : p[Len(p)] = "/")
    IN  [i \in 1..Len(folders) |-> RStrip(folders[i])]

\* lines 67-74: all the other patterns
split_file_patterns(patterns) ==
    SelectSeq(patterns, LAMBDA p : p[Len(p)] # "/")

\* fnmatch.fnmatch(name, pattern) for patterns of literals, "*" and "?"
RECURSIVE fnmatch(_, _)
fnmatch(name, pattern) ==
    IF pattern = <<>> THEN name = <<>>
    ELSE IF Head(pattern) = "*"
         THEN \E k \in 0..Len(name) :
                  fnmatch(SubSeq(name, k + 1, Len(name)), Tail(pattern))
    ELSE IF name = <<>> THEN FALSE
    ELSE IF Head(pattern) = "?" THEN fnmatch(Tail(name), Tail(pattern))
    ELSE Head(pattern) = Head(name) /\ fnmatch(Tail(name), Tail(pattern))

\* lines 77-91
is_ignored(name, patterns) ==
    \E i \in 1..Len(patterns) : fnmatch(name, patterns[i])

\* Path.name
BaseName(path) == path[Len(path)]

\* Path.suffix: from the last dot, unless the dot leads or ends the name
Suffix(name) ==
    LET dots == {k \in 1..Len(name) : name[k] = "."} IN
    IF dots = {} THEN <<>>
    ELSE LET k == CHOOSE d \in dots : \A d2 \in dots : d2 <= d IN
         IF k > 1 /\ k < Len(name) THEN SubSeq(name, k, Len(name)) ELSE <<>>

\* the names of path.parents for path = base_path / rel: the directories
\* between the root and the entry, the root itself, every directory above
\* the root, and "" for the top ("." or "/")
ParentNames(rel) ==
    {rel[j] : j \in 1..(Len(rel) - 1)}
        \cup {directory[i] : i \in 1..Len(directory)}
        \cup {<<>>}

\* lines 107-108
parent_ignored(e) ==
    \E name \in ParentNames(e.path) : is_ignored(name, folder_patterns)

\* line 113
file_ignored(e) == is_ignored(BaseName(e.path), file_patterns)

\* lines 13-15 and 17-36: the constructor reads the ignore file (the given
\* one, else <directory>/.gitignore, else FileNotFoundError) and splits it
Construct ==
    /\ gi_pc = "idle"
    /\ IF gitignore_where = "none"
       THEN /\ gi_pc' = "error"
            /\ UNCHANGED <<folder_patterns, file_patterns>>
       ELSE /\ folder_patterns' =
                   split_folder_patterns(parse_gitignore(gitignore_content))
            /\ file_patterns' =
                   split_file_patterns(parse_gitignore(gitignore_content))
            /\ gi_pc' = "ready"
    /\ UNCHANGED <<directory, gitignore_where, gitignore_content, rglob_pending,
                   visited, not_ignored_files>>
    /\ UNCHANGED <<fetchVars, parseVars, restVars>>

\* lines 102-105: check_files_and_folders starts its walk
CheckStart ==
    /\ gi_pc = "ready"
    /\ not_ignored_files' = <<>>
    /\ visited' = {}
    /\ \E o \in RglobOrders : rglob_pending' = o
    /\ gi_pc' = "walking"
    /\ UNCHANGED <<directory, gitignore_where, gitignore_content,
                   folder_patterns, file_patterns>>
    /\ UNCHANGED <<fetchVars, parseVars, restVars>>

\* lines 105-116: one entry of the walk
VisitPath ==
    /\ gi_pc = "walking"
    /\ rglob_pending # <<>>
    /\ LET e == Head(rglob_pending) IN
       /\ rglob_pending' = Tail(rglob_pending)
       /\ visited' = visited \cup {e}
       /\ IF /\ ~parent_ignored(e)
             /\ e.is_file
             /\ ~file_ignored(e)
             /\ Suffix(BaseName(e.path)) = <<".", "p", "y">>
          THEN not_ignored_files' = Append(not_ignored_files, e.path)
          ELSE UNCHANGED not_ignored_files
    /\ UNCHANGED <<directory, gitignore_where, gitignore_content,
                   folder_patterns, file_patterns, gi_pc>>
    /\ UNCHANGED <<fetchVars, parseVars, restVars>>

\* line 118
CheckReturn ==
    /\ gi_pc = "walking"
    /\ rglob_pending = <<>>
    /\ gi_pc' = "returned"
    /\ UNCHANGED <<directory, gitignore_where, gitignore_content,
                   folder_patterns, file_patterns, rglob_pending, visited,
                   not_ignored_files>>
    /\ UNCHANGED <<fetchVars, parseVars, restVars>>

(***************************************************************************)
(* The order of names as Python compares strings.                          *)
(***************************************************************************)
\* the characters of the names, in code-point order
Alphabet ==
    <<".", "_", "a", "b", "c", "d", "e", "f", "g", "h", "i", "j", "k", "l",
      "m", "n", "o", "p", "q", "r", "s", "t", "u", "v", "w", "x", "y", "z">>

CharRank(c) == CHOOSE i \in 1..Len(Alphabet) : Alphabet[i] = c

\* a < b, as strings
RECURSIVE NameBefore(_, _)
NameBefore(a, b) ==
    IF b = <<>> THEN FALSE
    ELSE IF a = <<>> THEN TRUE
    ELSE IF Head(a) # Head(b) THEN CharRank(Head(a)) < CharRank(Head(b))
    ELSE NameBefore(Tail(a), Tail(b))

(***************************************************************************)
(* repo_fetcher.py _scan_directory (lines 123-144) over os.walk.            *)
(***************************************************************************)
\* config.py lines 35-38
excluded_dirs ==
    { <<"n", "o", "d", "e", "_", "m", "o", "d", "u", "l", "e", "s">>,
      <<".", "g", "i", "t">>,
      <<"_", "_", "p", "y", "c", "a", "c", "h", "e", "_", "_">>,
      <<"v", "e", "n", "v">>,
      <<"d", "i", "s", "t">>,
      <<"b", "u", "i", "l", "d">> }

\* config.py lines 39-42
excluded_extensions ==
    { <<".", "l", "o", "c", "k">>,
      <<".", "l", "o", "g">>,
      <<".", "t", "m", "p">>,
      <<".", "c", "a", "c", "h", "e">>,
      <<".", "g", "i", "t", "i", "g", "n", "o", "r", "e">> }

\* what can lie below the scanned path: the entries of Tree and a directory
\* whose name ends like a log file
ScanUniverse ==
    Tree \cup { [path |-> <<n_x_log>>, is_file |-> FALSE],
                [path |-> <<n_x_log, n_a_py>>, is_file |-> TRUE] }

\* the layouts: every set of entries in which each entry's directory exists
Layouts ==
    {L \in SUBSET ScanUniverse :
        \A e \in L : Len(e.path) > 1 =>
            [path |-> SubSeq(e.path, 1, Len(e.path) - 1), is_file |-> FALSE] \in L}

\* os.scandir(root): the entries of directory dir in the layout
scan_children(dir) ==
    {e \in scan_layout :
        Len(e.path) = Len(dir) + 1 /\ SubSeq(e.path, 1, Len(dir)) = dir}

\* str.endswith
EndsWith(name, ext) ==
    /\ Len(name) >= Len(ext)
    /\ SubSeq(name, Len(name) - Len(ext) + 1, Len(name)) = ext

\* a plausible slip: the list of directories is left as it was
kept_dirs_unpruned(dirs) == dirs

\* line 131: dirs[:] = [d for d in dirs if d not in excluded_dirs]
kept_dirs(dirs) == SelectSeq(dirs, LAMBDA d : BaseName(d.path) \notin excluded_dirs)

\* lines 133-135
kept_filenames(filenames) ==
    SelectSeq(filenames,
              LAMBDA f : ~\E ext \in excluded_extensions : EndsWith(BaseName(f.path), ext))

\* lines 125-129: the walk starts at the scanned path
ScanStart ==
    /\ scan_pc = "idle"
    /\ files' = <<>>
    /\ scan_stack' = << <<>> >>
    /\ scan_visited' = {}
    /\ scan_pc' = "walking"
    /\ UNCHANGED scan_layout
    /\ UNCHANGED <<fetchVars, parseVars, ignoreVars, treeVars, pyVars, wfVars>>

\* lines 129-142: os.walk yields one directory, in any listing order; the
\* pruned dirs are the ones it descends into next, depth first
ScanVisit ==
    /\ scan_pc = "walking"
    /\ scan_stack # <<>>
    /\ LET root == Head(scan_stack) IN
       \E o \in Perms(scan_children(root)) :
          LET dirs == kept_dirs(SelectSeq(o, LAMBDA e : ~e.is_file))
              filenames == kept_filenames(SelectSeq(o, LAMBDA e : e.is_file))
          IN  /\ files' = files \o [k \in 1..Len(filenames) |-> filenames[k].path]
              /\ scan_stack' =
                     [k \in 1..Len(dirs) |-> dirs[k].path] \o Tail(scan_stack)
              /\ scan_visited' = scan_visited \cup {root}
    /\ UNCHANGED <<scan_layout, scan_pc>>
    /\ UNCHANGED <<fetchVars, parseVars, ignoreVars, treeVars, pyVars, wfVars>>

\* line 144
ScanReturn ==
    /\ scan_pc = "walking"
    /\ scan_stack = <<>>
    /\ scan_pc' = "returned"
    /\ UNCHANGED <<scan_layout, scan_stack, scan_visited, files>>
    /\ UNCHANGED <<fetchVars, parseVars, ignoreVars, treeVars, pyVars, wfVars>>

(***************************************************************************)
(* repo_fetcher.py _build_structure_recursive (lines 191-232).  The tree   *)
(* under construction is the sequence of its nodes in the order they are   *)
(* appended: the children list of a node is the nodes one level below it,  *)
(* in that order.  A frame of build_stack is one activation of the         *)
(* function.  File sizes (line 228) are left out of the nodes.             *)
(***************************************************************************)
n_a == <<"a">>
n_b == <<"b">>
n_c == <<"c">>
n_d == <<"d">>
n_file_txt == <<"f", "i", "l", "e", ".", "t", "x", "t">>
n_dot_git == <<".", "g", "i", "t">>
n_dot_github == <<".", "g", "i", "t", "h", "u", "b">>
n_venv == <<"v", "e", "n", "v">>

\* what can lie below the path the tree is built for
TreeUniverse ==
    { [path |-> <<n_a>>, is_file |-> FALSE],
      [path |-> <<n_a, n_b>>, is_file |-> FALSE],
      [path |-> <<n_a, n_b, n_c>>, is_file |-> FALSE],
      [path |-> <<n_a, n_b, n_c, n_file_txt>>, is_file |-> TRUE],
      [path |-> <<n_a, n_d>>, is_file |-> FALSE],
      [path |-> <<n_a, n_d, n_m_py>>, is_file |-> TRUE],
      [path |-> <<n_a, n_a_py>>, is_file |-> TRUE],
      [path |-> <<n_b_py>>, is_file |-> TRUE],
      [path |-> <<n_dot_git>>, is_file |-> FALSE],
      [path |-> <<n_dot_github>>, is_file |-> FALSE],
      [path |-> <<n_dot_github, n_a_py>>, is_file |-> TRUE],
      [path |-> <<n_venv>>, is_file |-> FALSE] }

TreeLayouts ==
    {L \in SUBSET TreeUniverse :
        \A e \in L : Len(e.path) > 1 =>
            [path |-> SubSeq(e.path, 1, Len(e.path) - 1), is_file |-> FALSE] \in L}

\* the directories of a layout, the root included
DirsOf(L) == {<<>>} \cup {e.path : e \in {t \in L : ~t.is_file}}

\* path.iterdir(): the entries of directory dir
tree_children(dir) ==
    {e \in tree_layout :
        Len(e.path) = Len(dir) + 1 /\ SubSeq(e.path, 1, Len(dir)) = dir}

\* line 202, the sort key (not x.is_dir(), x.name): directories first, then
\* by name
ItemBefore(x, y) ==
    \/ ~x.is_file /\ y.is_file
    \/ x.is_file = y.is_file /\ NameBefore(BaseName(x.path), BaseName(y.path))

\* line 202: sorted(...)
RECURSIVE sorted_items(_)
sorted_items(S) ==
    IF S = {} THEN <<>>
    ELSE LET x == CHOOSE e \in S : \A y \in S \ {e} : ItemBefore(e, y)
         IN  <<x>> \o sorted_items(S \ {x})

\* line 205
hidden(name) == Head(name) = "." /\ name # n_dot_github

\* line 209
skipped_dirs == { <<"n", "o", "d", "e", "_", "m", "o", "d", "u", "l", "e", "s">>, <<"_", "_", "p", "y", "c", "a", "c", "h", "e", "_", "_">>, n_venv }

\* a plausible slip: the cap is tested one level late
depth_reached_late(current_depth, cap) == current_depth > cap

\* line 198
depth_reached(current_depth, cap) == current_depth >= cap

\* lines 184-187: _build_structure makes the root node and the first call
BuildStart ==
    /\ build_pc = "idle"
    /\ structure' = << [path |-> <<>>, type |-> "directory"] >>
    /\ build_stack' = << [path |-> <<>>, depth |-> 0, at |-> "enter", items |-> <<>>] >>
    /\ perm_errors' = {}
    /\ build_pc' = "building"
    /\ UNCHANGED <<tree_layout, unreadable, max_depth>>
    /\ UNCHANGED <<fetchVars, parseVars, ignoreVars, scanVars, pyVars, wfVars>>

\* lines 198-202 and 231-232: an activation starts: at the cap it returns,
\* on a PermissionError of the listing it returns, else it has its items
BuildEnter ==
    /\ build_pc = "building"
    /\ build_stack # <<>>
    /\ Head(build_stack).at = "enter"
    /\ LET fr == Head(build_stack) IN
       IF depth_reached(fr.depth, max_depth)
       THEN /\ build_stack' = Tail(build_stack)
            /\ UNCHANGED perm_errors
       ELSE IF fr.path \in unreadable
       THEN /\ build_stack' = Tail(build_stack)
            /\ perm_errors' = perm_errors \cup {fr.path}
       ELSE /\ build_stack' =
                   <<[fr EXCEPT !.at = "loop",
                                !.items = sorted_items(tree_children(fr.path))]>>
                       \o Tail(build_stack)
            /\ UNCHANGED perm_errors
    /\ UNCHANGED <<tree_layout, unreadable, max_depth, structure, build_pc>>
    /\ UNCHANGED <<fetchVars, parseVars, ignoreVars, scanVars, pyVars, wfVars>>

\* lines 204-229: one item of the loop
BuildItem ==
    /\ build_pc = "building"
    /\ build_stack # <<>>
    /\ Head(build_stack).at = "loop"
    /\ Head(build_stack).items # <<>>
    /\ LET fr == Head(build_stack)
           item == Head(fr.items)
           rest == [fr EXCEPT !.items = Tail(fr.items)]
       IN  IF hidden(BaseName(item.path))
           THEN /\ build_stack' = <<rest>> \o Tail(build_stack)
                /\ UNCHANGED structure
           ELSE IF ~item.is_file
           THEN IF BaseName(item.path) \in skipped_dirs
                THEN /\ build_stack' = <<rest>> \o Tail(build_stack)
                     /\ UNCHANGED structure
                ELSE /\ structure' =
                            Append(structure, [path |-> item.path, type |-> "directory"])
                     /\ build_stack' =
                            <<[path |-> item.path, depth |-> fr.depth + 1,
                               at |-> "enter", items |-> <<>>], rest>>
                                \o Tail(build_stack)
           ELSE /\ structure' = Append(structure, [path |-> item.path, type |-> "file"])
                /\ build_stack' = <<rest>> \o Tail(build_stack)
    /\ UNCHANGED <<tree_layout, unreadable, max_depth, perm_errors, build_pc>>
    /\ UNCHANGED <<fetchVars, parseVars, ignoreVars, scanVars, pyVars, wfVars>>

\* the loop of an activation is over
BuildLeave ==
    /\ build_pc = "building"
    /\ build_stack # <<>>
    /\ Head(build_stack).at = "loop"
    /\ Head(build_stack).items = <<>>
    /\ build_stack' = Tail(build_stack)
    /\ UNCHANGED <<tree_layout, unreadable, max_depth, structure, perm_errors, build_pc>>
    /\ UNCHANGED <<fetchVars, parseVars, ignoreVars, scanVars, pyVars, wfVars>>

\* line 189
BuildReturn ==
    /\ build_pc = "building"
    /\ build_stack = <<>>
    /\ build_pc' = "returned"
    /\ UNCHANGED <<tree_layout, unreadable, max_depth, structure, build_stack,
                   perm_errors>>
    /\ UNCHANGED <<fetchVars, parseVars, ignoreVars, scanVars, pyVars, wfVars>>

(***************************************************************************)
(* tools/parser/python_parser.py and the flat result of code_parser.parse. *)
(* A syntax tree is the sequence of its definition and block nodes in      *)
(* source order, each with its nesting depth below the Module node (node   *)
(* 0); the other nodes of the tree (arguments, statements of the bodies)   *)
(* carry no record and do not change the order of those that do.           *)
(***************************************************************************)
NodeMenu ==
    { [kind |-> "ClassDef", name |-> "Foo", args |-> <<>>],
      [kind |-> "ClassDef", name |-> "bar", args |-> <<>>],
      [kind |-> "FunctionDef", name |-> "bar", args |-> <<"self", "x">>],
      [kind |-> "FunctionDef", name |-> "baz", args |-> <<"y">>],
      [kind |-> "FunctionDef", name |-> "Foo", args |-> <<>>],
      [kind |-> "AsyncFunctionDef", name |-> "baz", args |-> <<"self">>],
      [kind |-> "AsyncFunctionDef", name |-> "bar", args |-> <<"y">>],
      [kind |-> "If", name |-> "", args |-> <<>>] }

DefKinds == {"FunctionDef", "ClassDef", "AsyncFunctionDef"}

\* the nesting depths a source file can give n nodes in source order
DepthSeqs(n) ==
    {d \in [1..n -> 1..n] :
        /\ n > 0 => d[1] = 1
        /\ \A i \in 1..(n - 1) : d[i + 1] <= d[i] + 1}

\* the tree of n nodes with the definitions t at the depths d
SyntaxTree(n, t, d) ==
    [i \in 1..n |-> [kind |-> t[i].kind, name |-> t[i].name,
                      args |-> t[i].args, depth |-> d[i]]]

NodeDepth(i) == IF i = 0 THEN 0 ELSE ast_tree[i].depth

\* the nodes of the subtree of node i
Subtree(i) ==
    {j \in i..Len(ast_tree) : \A k \in (i + 1)..j : NodeDepth(k) > NodeDepth(i)}

\* ast.iter_child_nodes(node), in source order
iter_child_nodes(i) ==
    SelectSeq([j \in 1..Len(ast_tree) |-> j],
              LAMBDA j : j \in Subtree(i) /\ NodeDepth(j) = NodeDepth(i) + 1)

\* line 76, child.parent: the node whose child j is
ParentOf(j) ==
    CHOOSE i \in 0..(j - 1) : j \in Subtree(i) /\ NodeDepth(j) = NodeDepth(i) + 1

IsLeaf(i) == Subtree(i) = {i}

\* node.lineno: a header line per node, and a one-line body where nothing is
\* nested
lineno(i) == i + Cardinality({j \in 1..(i - 1) : IsLeaf(j)})

\* node.end_lineno: the body line of the last node of the subtree
end_lineno(i) ==
    LET last == CHOOSE j \in Subtree(i) : \A k \in Subtree(i) : k <= j
    IN  lineno(last) + 1

\* lines 105-107: a ClassDef has no args
params_of(i) ==
    IF ast_tree[i].kind = "ClassDef" THEN <<>> ELSE ast_tree[i].args

\* lines 109-111: the tuple appended for node i
struct_of(i) ==
    [type |-> ast_tree[i].kind,
     name |-> ast_tree[i].name,
     start_line |-> lineno(i),
     end_line |-> end_lineno(i),
     params |-> params_of(i)]

\* lines 39-45: the record of get_obj_code_info, without the fields read
\* from the text of the file (code_content, have_return, name_column)
get_obj_code_info(struct) ==
    [type |-> struct.type,
     name |-> struct.name,
     md_content |-> <<>>,
     code_start_line |-> struct.start_line,
     code_end_line |-> struct.end_line,
     params |-> struct.params]

\* a plausible slip: the last occurrence of a name is the one kept
RECURSIVE dict_fromkeys_last(_)
dict_fromkeys_last(names) ==
    IF names = <<>> THEN <<>>
    ELSE IF \E k \in 2..Len(names) : names[k] = Head(names)
         THEN dict_fromkeys_last(Tail(names))
         ELSE <<Head(names)>> \o dict_fromkeys_last(Tail(names))

\* code_parser.py lines 31-32: list(dict.fromkeys(names))
RECURSIVE dict_fromkeys(_)
dict_fromkeys(names) ==
    IF names = <<>> THEN <<>>
    ELSE LET init == dict_fromkeys(SubSeq(names, 1, Len(names) - 1))
             last == names[Len(names)]
         IN  IF \E k \in 1..Len(init) : init[k] = last THEN init
             ELSE Append(init, last)

\* the parser's parse (code_parser.py line 28) is not part of the sources;
\* flat mode as the specification defines it: the class names of the
\* structured records
flat_classes(records) ==
    LET cls == SelectSeq(records, LAMBDA r : r.type = "ClassDef")
    IN  [k \in 1..Len(cls) |-> cls[k].name]

\* and the names of the functions whose first parameter is not self
flat_functions(records) ==
    LET fns == SelectSeq(records,
                   LAMBDA r : /\ r.type \in {"FunctionDef", "AsyncFunctionDef"}
                              /\ (r.params = <<>> \/ r.params[1] # "self"))
    IN  [k \in 1..Len(fns) |-> fns[k].name]

\* python_parser.py lines 93-97: ast.parse, add_parent_references, and the
\* queue of ast.walk holding the Module node
GetStart ==
    /\ py_pc = "idle"
    /\ functions_and_classes' = <<>>
    /\ todo' = <<0>>
    /\ py_pc' = "walking"
    /\ UNCHANGED <<ast_tree, file_objects, classes, functions>>
    /\ UNCHANGED <<fetchVars, parseVars, ignoreVars, scanVars, treeVars, wfVars>>

\* lines 99-111: ast.walk takes the node at the left of its queue, puts the
\* node's children at the right, and yields it to the loop body
WalkNode ==
    /\ py_pc = "walking"
    /\ todo # <<>>
    /\ LET node == Head(todo) IN
       /\ todo' = Tail(todo) \o iter_child_nodes(node)
       /\ IF node # 0 /\ ast_tree[node].kind \in DefKinds
          THEN functions_and_classes' = Append(functions_and_classes, struct_of(node))
          ELSE UNCHANGED functions_and_classes
    /\ UNCHANGED <<ast_tree, file_objects, classes, functions, py_pc>>
    /\ UNCHANGED <<fetchVars, parseVars, ignoreVars, scanVars, treeVars, wfVars>>

\* lines 112 and 148-156: generate_file_structure turns the tuples into
\* records
GenerateFileStructure ==
    /\ py_pc = "walking"
    /\ todo = <<>>
    /\ file_objects' = [k \in 1..Len(functions_and_classes) |->
                           get_obj_code_info(functions_and_classes[k])]
    /\ py_pc' = "structured"
    /\ UNCHANGED <<ast_tree, todo, functions_and_classes, classes, functions>>
    /\ UNCHANGED <<fetchVars, parseVars, ignoreVars, scanVars, treeVars, wfVars>>

\* code_parser.py lines 28-41: the flat result of parse
ParseFlat ==
    /\ py_pc = "structured"
    /\ classes' = dict_fromkeys(flat_classes(functions_and_classes))
    /\ functions' = dict_fromkeys(flat_functions(functions_and_classes))
    /\ py_pc' = "flat"
    /\ UNCHANGED <<ast_tree, todo, functions_and_classes, file_objects>>
    /\ UNCHANGED <<fetchVars, parseVars, ignoreVars, scanVars, treeVars, wfVars>>

(***************************************************************************)
(* workflow/nodes.py fetch_repository and handle_errors, and the edges of  *)
(* workflow/graph.py between them and parse_code.  The fetch node calls    *)
(* fetch for run 1; stage and error are state["stage"] and state["error"]. *)
(***************************************************************************)
\* nodes.py lines 18-22: the node sets the stage and calls fetch
FetchNodeStart ==
    /\ wf_pc = "start"
    /\ stage' = "fetching"
    /\ pc' = [pc EXCEPT ![1] = "idle"]
    /\ wf_pc' = "fetch_repository"
    /\ UNCHANGED <<repo_url, clone_dir, proc, stderr, exc, out, steps, disk, running>>
    /\ UNCHANGED <<included, repo_files, parsed_file, file_idx, error, vector_store,
                   node_pc>>
    /\ UNCHANGED <<errors, documentation>>
    /\ UNCHANGED <<ignoreVars, scanVars, treeVars, pyVars>>

\* nodes.py lines 22-33: fetch has returned (the repository, with the files
\* its scan found) or raised (except Exception records the failure; a
\* cancellation is not an Exception and leaves the node)
FetchNodeEnd ==
    /\ wf_pc = "fetch_repository"
    /\ pc[1] \in {"returned", "failed"}
    /\ IF pc[1] = "returned"
       THEN /\ \E inv \in Inventories :
                  /\ included' = inv
                  /\ repo_files' = [i \in 1..Len(inv) |-> i]
            /\ wf_pc' = "route_fetch"
            /\ UNCHANGED <<stage, error>>
       ELSE IF out[1] = "CancelledError"
       THEN /\ wf_pc' = "raised"
            /\ UNCHANGED <<included, repo_files, stage, error>>
       ELSE /\ stage' = "error"
            /\ error' = <<"Error fetching repository", out[1]>>
            /\ wf_pc' = "route_fetch"
            /\ UNCHANGED <<included, repo_files>>
    /\ UNCHANGED <<parsed_file, file_idx, vector_store, node_pc>>
    /\ UNCHANGED <<errors, documentation>>
    /\ UNCHANGED <<fetchVars, ignoreVars, scanVars, treeVars, pyVars>>

\* workflow/edges.py is not part of the sources: the result checks of
\* graph.py lines 30-46 route on the stage a node left
check_result == IF stage = "error" THEN "error" ELSE "continue"

\* graph.py lines 30-37
RouteFetch ==
    /\ wf_pc = "route_fetch"
    /\ IF check_result = "error"
       THEN /\ wf_pc' = "handle_errors"
            /\ UNCHANGED node_pc
       ELSE /\ wf_pc' = "parse_code"
            /\ node_pc' = "idle"
    /\ UNCHANGED <<included, repo_files, parsed_file, file_idx, stage, error,
                   vector_store>>
    /\ UNCHANGED <<errors, documentation>>
    /\ UNCHANGED <<fetchVars, ignoreVars, scanVars, treeVars, pyVars>>

\* graph.py lines 39-46
RouteParse ==
    /\ wf_pc = "parse_code"
    /\ node_pc = "done"
    /\ wf_pc' = IF check_result = "error" THEN "handle_errors" ELSE "analyze_code"
    /\ UNCHANGED <<errors, documentation>>
    /\ UNCHANGED <<fetchVars, parseVars, ignoreVars, scanVars, treeVars, pyVars>>

\* nodes.py line 112: "\n".join(state['errors'])
error_summary(state_errors) == state_errors.list

\* nodes.py lines 106-117 and graph.py line 52: state['errors'] is read (a
\* KeyError when the state has no such key), the report is written
HandleErrors ==
    /\ wf_pc = "handle_errors"
    /\ IF ~errors.present
       THEN /\ wf_pc' = "raised"
            /\ UNCHANGED <<stage, documentation>>
       ELSE /\ stage' = "error"
            /\ documentation' =
                   [written |-> TRUE, error_report |-> error_summary(errors)]
            /\ wf_pc' = "END"
    /\ UNCHANGED <<included, repo_files, parsed_file, file_idx, error, vector_store,
                   node_pc>>
    /\ UNCHANGED errors
    /\ UNCHANGED <<fetchVars, ignoreVars, scanVars, treeVars, pyVars>>

(***************************************************************************)
(* Placeholders of the other components while a fetch is checked.          *)
(***************************************************************************)
ParseIdle ==
    /\ included = <<>>
    /\ repo_files = <<>>
    /\ parsed_file = <<>>
    /\ file_idx = 0
    /\ stage = "fetching"
    /\ error = <<>>
    /\ vector_store = <<>>
    /\ node_pc = "idle"

IgnoreIdle ==
    /\ directory = <<>>
    /\ gitignore_where = "none"
    /\ gitignore_content = <<>>
    /\ folder_patterns = <<>>
    /\ file_patterns = <<>>
    /\ rglob_pending = <<>>
    /\ visited = {}
    /\ not_ignored_files = <<>>
    /\ gi_pc = "idle"

ScanIdle ==
    /\ scan_layout = {}
    /\ scan_stack = <<>>
    /\ scan_visited = {}
    /\ files = <<>>
    /\ scan_pc = "idle"

TreeIdle ==
    /\ tree_layout = {}
    /\ unreadable = {}
    /\ max_depth = 0
    /\ structure = <<>>
    /\ build_stack = <<>>
    /\ perm_errors = {}
    /\ build_pc = "idle"

PyIdle ==
    /\ ast_tree = <<>>
    /\ todo = <<>>
    /\ functions_and_classes = <<>>
    /\ file_objects = <<>>
    /\ classes = <<>>
    /\ functions = <<>>
    /\ py_pc = "idle"

WfIdle ==
    /\ errors = [present |-> FALSE, list |-> <<>>]
    /\ documentation = [written |-> FALSE, error_report |-> <<>>]
    /\ wf_pc = "none"

RestIdle == ScanIdle /\ TreeIdle /\ PyIdle /\ WfIdle

(***************************************************************************)
(* Spec: NumRuns fetch calls in one event loop, each called once, started  *)
(* in any order and at any time (one after the other, or overlapping).     *)
(***************************************************************************)
Init ==
    /\ repo_url \in [Runs -> RepoUrls]
    /\ FetchIdle
    /\ DiskInit(SlotsOf({repo_url[r] : r \in Runs}))
    /\ ParseIdle
    /\ IgnoreIdle
    /\ RestIdle

Next ==
    \E r \in Runs : RunStep(r) \/ ProcStep(r)

Spec == Init /\ [][Next]_vars

(***************************************************************************)
(* SpecSolo: one fetch call, alone, with every URL path up to MaxPathLen.  *)
(***************************************************************************)
InitSolo ==
    /\ \E u \in AllPaths : repo_url = [r \in Runs |-> IF r = 1 THEN u ELSE <<>>]
    /\ FetchIdle
    /\ DiskInit(SlotsOf({repo_url[1]}) \cup {SeedSlot})
    /\ ParseIdle
    /\ IgnoreIdle
    /\ RestIdle

NextSolo == RunStep(1) \/ ProcStep(1)

SpecSolo == InitSolo /\ [][NextSolo]_vars

(***************************************************************************)
(* SpecParse: the parse_code node over every inventory of up to MaxFiles   *)
(* files; state["repository"].files starts as the scanner's list.          *)
(***************************************************************************)
InitParse ==
    /\ included \in Inventories
    /\ repo_files = [i \in 1..Len(included) |-> i]
    /\ parsed_file = <<>>
    /\ file_idx = 0
    /\ stage = "fetching"
    /\ error = <<>>
    /\ vector_store = <<>>
    /\ node_pc = "idle"
    /\ repo_url = [r \in Runs |-> <<>>]
    /\ FetchIdle
    /\ disk = <<>>
    /\ IgnoreIdle
    /\ RestIdle

NextParse ==
    \/ ParseCodeStart
    \/ ParseCodeFile
    \/ ParseCodeFinish

SpecParse == InitParse /\ [][NextParse]_vars

(***************************************************************************)
(* SpecIgnore: a GitignoreChecker over every ignore file of up to MaxLines *)
(* lines, for each place of the checked directory and each listing order.  *)
(***************************************************************************)
InitIgnore ==
    /\ directory \in Roots
    /\ gitignore_where \in {"given", "default", "none"}
    /\ gitignore_content \in GitignoreContents
    /\ folder_patterns = <<>>
    /\ file_patterns = <<>>
    /\ rglob_pending = <<>>
    /\ visited = {}
    /\ not_ignored_files = <<>>
    /\ gi_pc = "idle"
    /\ repo_url = [r \in Runs |-> <<>>]
    /\ FetchIdle
    /\ disk = <<>>
    /\ ParseIdle
    /\ RestIdle

NextIgnore ==
    \/ Construct
    \/ CheckStart
    \/ VisitPath
    \/ CheckReturn

SpecIgnore == InitIgnore /\ [][NextIgnore]_vars

(***************************************************************************)
(* SpecScan: _scan_directory over every layout.                            *)
(***************************************************************************)
InitScan ==
    /\ scan_layout \in Layouts
    /\ scan_stack = <<>>
    /\ scan_visited = {}
    /\ files = <<>>
    /\ scan_pc = "idle"
    /\ repo_url = [r \in Runs |-> <<>>]
    /\ FetchIdle
    /\ disk = <<>>
    /\ ParseIdle
    /\ IgnoreIdle
    /\ TreeIdle
    /\ PyIdle
    /\ WfIdle

NextScan ==
    \/ ScanStart
    \/ ScanVisit
    \/ ScanReturn

SpecScan == InitScan /\ [][NextScan]_vars

(***************************************************************************)
(* SpecTree: _build_structure_recursive over every layout, every cap up to *)
(* MaxDepth and at most one unreadable directory.                          *)
(***************************************************************************)
InitTree ==
    /\ tree_layout \in TreeLayouts
    /\ unreadable \in {{}} \cup {{d} : d \in DirsOf(tree_layout)}
    /\ max_depth \in 0..MaxDepth
    /\ structure = <<>>
    /\ build_stack = <<>>
    /\ perm_errors = {}
    /\ build_pc = "idle"
    /\ repo_url = [r \in Runs |-> <<>>]
    /\ FetchIdle
    /\ disk = <<>>
    /\ ParseIdle
    /\ IgnoreIdle
    /\ ScanIdle
    /\ PyIdle
    /\ WfIdle

NextTree ==
    \/ BuildStart
    \/ BuildEnter
    \/ BuildItem
    \/ BuildLeave
    \/ BuildReturn

SpecTree == InitTree /\ [][NextTree]_vars

(***************************************************************************)
(* SpecPy: the extraction over every syntax tree of up to MaxNodes nodes.  *)
(***************************************************************************)
InitPy ==
    /\ \E n \in 0..MaxNodes :
           \E t \in [1..n -> NodeMenu] :
               \E d \in DepthSeqs(n) : ast_tree = SyntaxTree(n, t, d)
    /\ todo = <<>>
    /\ functions_and_classes = <<>>
    /\ file_objects = <<>>
    /\ classes = <<>>
    /\ functions = <<>>
    /\ py_pc = "idle"
    /\ repo_url = [r \in Runs |-> <<>>]
    /\ FetchIdle
    /\ disk = <<>>
    /\ ParseIdle
    /\ IgnoreIdle
    /\ ScanIdle
    /\ TreeIdle
    /\ WfIdle

NextPy ==
    \/ GetStart
    \/ WalkNode
    \/ GenerateFileStructure
    \/ ParseFlat

SpecPy == InitPy /\ [][NextPy]_vars

(***************************************************************************)
(* SpecFlow: the graph from its entry point to handle_errors, over the     *)
(* fetch of run 1 and parse_code.  The caller's initial state may or may   *)
(* not hold the key 'errors'.                                              *)
(***************************************************************************)
InitFlow ==
    /\ \E u \in RepoUrls : repo_url = [r \in Runs |-> IF r = 1 THEN u ELSE <<>>]
    /\ pc = [r \in Runs |-> "not_called"]
    /\ clone_dir = [r \in Runs |-> NoDir]
    /\ proc = [r \in Runs |-> "none"]
    /\ stderr = [r \in Runs |-> "none"]
    /\ exc = [r \in Runs |-> "none"]
    /\ out = [r \in Runs |-> "none"]
    /\ steps = [r \in Runs |-> {}]
    /\ running = 0
    /\ DiskInit(SlotsOf({repo_url[1]}))
    /\ included = <<>>
    /\ repo_files = <<>>
    /\ parsed_file = <<>>
    /\ file_idx = 0
    /\ stage = "none"
    /\ error = <<>>
    /\ vector_store = <<>>
    /\ node_pc = "waiting"
    /\ errors \in {[present |-> FALSE, list |-> <<>>], [present |-> TRUE, list |-> <<>>]}
    /\ documentation = [written |-> FALSE, error_report |-> <<>>]
    /\ wf_pc = "start"
    /\ IgnoreIdle
    /\ ScanIdle
    /\ TreeIdle
    /\ PyIdle

NextFlow ==
    \/ FetchNodeStart
    \/ RunStep(1)
    \/ ProcStep(1)
    \/ FetchNodeEnd
    \/ RouteFetch
    \/ ParseCodeStart
    \/ ParseCodeFile
    \/ ParseCodeFinish
    \/ RouteParse
    \/ HandleErrors

SpecFlow == InitFlow /\ [][NextFlow]_vars

(***************************************************************************)
(* Claims about _fetch_git.                                                *)
(***************************************************************************)

\* the step of run r in which an exception other than a cancellation
\* reaches the caller
ErrorReachesCaller(r) ==
    /\ pc[r] # "failed"
    /\ pc'[r] = "failed"
    /\ out'[r] # "CancelledError"

\* C1: whenever a step of the fetch sequence raises, no directory exists at
\* the run's workspace path at the moment the error reaches the caller.
Claim_C1 ==
    [][\A r \in Runs :
          (ErrorReachesCaller(r) /\ clone_dir[r] # NoDir)
              => disk'[clone_dir[r]] = "absent"]_vars

\* C2: a clone that has not completed when the timeout elapses makes fetch
\* fail with the timeout error, and once fetch has failed no workspace
\* directory exists on disk.
Claim_C2 ==
    \A r \in Runs :
        (exc[r] = "TimeoutError" /\ pc[r] = "failed")
            => /\ out[r] = "TimeoutError"
               /\ disk[clone_dir[r]] = "absent"

\* C3: on deadline expiry the clone process has terminated before the
\* timeout error is raised and before the removal of the workspace starts:
\* the process is never alive while the cleanup runs.
Claim_C3 ==
    \A r \in Runs :
        (exc[r] = "TimeoutError" /\ pc[r] \in {"cleanup", "cleanup_top", "failed"})
            => proc[r] \notin Alive

\* C4: when a fetch is cancelled after its clone subprocess was started, the
\* subprocess is killed if it is still running and no workspace directory of
\* the run is left once the cancellation has reached the caller.
Claim_C4 ==
    \A r \in Runs :
        out[r] = "CancelledError"
            => /\ proc[r] \notin {"starting", "writing"}
               /\ disk[clone_dir[r]] = "absent"

\* a step of run q, or of its clone subprocess, that touches the disk
DiskStepOf(q) ==
    \/ RemoveExisting(q)
    \/ RemoveExistingTop(q)
    \/ Cleanup(q)
    \/ CleanupTop(q)
    \/ ProcMkdir(q)
    \/ ProcWrite(q)

\* C6: the workspace directory a run owns is never removed or written to by
\* another run (its coroutine or its clone subprocess).
Claim_C6 ==
    [][\A r \in Runs : \A q \in Runs \ {r} :
          (Owns(r) /\ clone_dir[q] = clone_dir[r])
              => ~(DiskStepOf(q) /\ disk'[clone_dir[r]] # disk[clone_dir[r]])]_vars

\* a URL path holds an owner and a repository name when at least two of its
\* slash-separated segments are not empty
SegmentStarts(path) ==
    {i \in 1..Len(path) : path[i] # "/" /\ (i = 1 \/ path[i - 1] = "/")}

Decomposable(path) == Cardinality(SegmentStarts(path)) >= 2

\* C7: fetch fails with the invalid-URL error exactly when the URL path does
\* not hold an owner segment and a repository-name segment, and the step that
\* fails is the first of the call: it removes nothing, creates nothing and
\* starts no process.
Thm_C7 ==
    [][\A r \in Runs :
          /\ pc'[r] # "idle"
                => (out'[r] = "ValueError" <=> ~Decomposable(repo_url'[r]))
          /\ (out[r] # "ValueError" /\ out'[r] = "ValueError")
                => /\ pc[r] = "idle"
                   /\ disk' = disk
                   /\ proc' = proc
                   /\ clone_dir'[r] = NoDir]_vars

\* an undecomposable URL was rejected while an earlier run's directory is on disk
Witness_C7 ==
    \E r \in Runs :
        /\ out[r] = "ValueError"
        /\ Len(repo_url[r]) >= 3
        /\ disk[SeedSlot] = "present"

\* C8: when the clone completes with a non-zero exit status, fetch fails with
\* the clone-failed error (RuntimeError carrying stderr); branch read, scan
\* and tree build are not performed and no Repository is returned.
Claim_C8 ==
    [][\A r \in Runs :
          /\ (pc[r] = "await_clone" /\ proc[r] = "exited_err" /\ pc'[r] = "cleanup")
                => exc'[r] = "RuntimeError"
          /\ proc'[r] = "exited_err"
                => (steps'[r] = {} /\ out'[r] # "Repository")]_vars

\* C9: at the moment the clone is started no directory exists at the run's
\* workspace path.
Claim_C9 ==
    [][\A r \in Runs :
          (pc[r] = "spawn" /\ pc'[r] = "await_clone")
              => disk[clone_dir[r]] = "absent"]_vars

(***************************************************************************)
(* Claims about parse_code.                                                *)
(***************************************************************************)

\* the files of the inventory whose extraction fails with a per-file error
FailingFiles ==
    {i \in 1..Len(included) :
        should_parse_file(included[i]) /\ included[i].cond # "ok"}

\* the files that parse, in the scanner's order
ParsingFiles ==
    SelectSeq([i \in 1..Len(included) |-> i],
              LAMBDA i : should_parse_file(included[i]) /\ included[i].cond = "ok")

\* C5: a per-file error does not abort the run: the node does not end in the
\* error stage, and the resulting files are exactly the files that parse, in
\* the scanner's order, without the failing ones.
Claim_C5 ==
    (node_pc = "done" /\ FailingFiles # {})
        => /\ stage # "error"
           /\ repo_files = [k \in 1..Len(ParsingFiles) |-> parse_result(ParsingFiles[k])]

(***************************************************************************)
(* Claims about GitignoreChecker.                                          *)
(***************************************************************************)

\* the lines of the ignore file that are patterns: not blank, not comments
PatternLines ==
    {ws_strip(gitignore_content[i]) : i \in 1..Len(gitignore_content)}
        \ ({<<>>} \cup {l \in GitignoreLines : l # <<>> /\ Head(l) = "#"})

\* (a) some ancestor directory's base name matches a folder pattern
FolderRule(e) ==
    \E l \in PatternLines :
        /\ l[Len(l)] = "/"
        /\ \E name \in ParentNames(e.path) : fnmatch(name, RStrip(l))

\* (b) the path's own base name matches a file pattern
FileRule(e) ==
    \E l \in PatternLines :
        /\ l[Len(l)] # "/"
        /\ fnmatch(BaseName(e.path), l)

Listed(path) == \E k \in 1..Len(not_ignored_files) : not_ignored_files[k] = path

HasLine(l) == \E i \in 1..Len(gitignore_content) : gitignore_content[i] = l

RECURSIVE DirBefore(_, _)
DirBefore(p, q) ==
    IF q = <<>> THEN FALSE
    ELSE IF p = <<>> THEN TRUE
    ELSE IF Head(p) # Head(q) THEN NameBefore(Head(p), Head(q))
    ELSE DirBefore(Tail(p), Tail(q))

DirOf(path) == SubSeq(path, 1, Len(path) - 1)

\* directory-then-name order of two relative paths
PathBefore(p, q) ==
    \/ DirBefore(DirOf(p), DirOf(q))
    \/ DirOf(p) = DirOf(q) /\ NameBefore(BaseName(p), BaseName(q))

\* the files below the root that are not excluded and end in .py
IncludedPy ==
    {e.path : e \in {t \in Tree : /\ t.is_file
                                  /\ ~(FolderRule(t) \/ FileRule(t))
                                  /\ Suffix(BaseName(t.path)) = <<".", "p", "y">>}}

\* C11: the enumeration returns the relative paths of exactly the files that
\* are not excluded and have the extension asked for, in directory-then-name
\* sorted order, so that the order in which the filesystem lists the entries
\* does not show in the result.
Claim_C11 ==
    gi_pc = "returned" =>
        /\ {not_ignored_files[k] : k \in 1..Len(not_ignored_files)} = IncludedPy
        /\ \A i, j \in 1..Len(not_ignored_files) :
               i < j => PathBefore(not_ignored_files[i], not_ignored_files[j])

\* what check_files_and_folders decides for entry e when the same contents
\* and the same patterns lie under the root `dir`
ListedUnder(dir, e) ==
    /\ e.is_file
    /\ ~\E name \in {e.path[j] : j \in 1..(Len(e.path) - 1)}
                        \cup {dir[i] : i \in 1..Len(dir)} \cup {<<>>} :
            is_ignored(name, folder_patterns)
    /\ ~file_ignored(e)
    /\ Suffix(BaseName(e.path)) = <<".", "p", "y">>

\* C19: the result depends only on the patterns and on what lies below the
\* root: the same contents under any other root (another name, other
\* directories above it) give the same list.
Claim_C19 ==
    gi_pc = "returned" =>
        \A dir \in Roots : \A e \in Tree :
            Listed(e.path) <=> ListedUnder(dir, e)

(***************************************************************************)
(* Claims about _scan_directory.                                           *)
(***************************************************************************)

\* the files of the layout with no ancestor directory below the root named
\* in excluded_dirs and no name ending in an excluded extension
Survivors ==
    {e.path : e \in {t \in scan_layout :
        /\ t.is_file
        /\ \A j \in 1..(Len(t.path) - 1) : t.path[j] \notin excluded_dirs
        /\ \A ext \in excluded_extensions : ~EndsWith(BaseName(t.path), ext)}}

\* C12: the scan never visits a directory that is, or lies below, a directory
\* named in excluded_dirs, and the files it returns are exactly the relative
\* paths of the files with no such ancestor below the root and no excluded
\* extension, each once.
Thm_C12 ==
    /\ \A d \in scan_visited : \A j \in 1..Len(d) : d[j] \notin excluded_dirs
    /\ \A k \in 1..Len(files) :
           \A j \in 1..(Len(files[k]) - 1) : files[k][j] \notin excluded_dirs
    /\ scan_pc = "returned" =>
           /\ {files[k] : k \in 1..Len(files)} = Survivors
           /\ \A i, j \in 1..Len(files) : files[i] = files[j] => i = j

\* a scan returned over a layout with build/m.py, src/build/n.py, src/a.log,
\* src/a.py and x.log/a.py: the two files under build and the log are left
\* out, src/a.py and the file in the directory named x.log are kept
Witness_C12 ==
    /\ scan_pc = "returned"
    /\ scan_layout = ScanUniverse
    /\ \E k \in 1..Len(files) : files[k] = <<n_src, n_a_py>>
    /\ \E k \in 1..Len(files) : files[k] = <<n_x_log, n_a_py>>
    /\ Len(files) = 3

(***************************************************************************)
(* Claims about _build_structure_recursive.                                *)
(***************************************************************************)

HasNode(path) == \E k \in 1..Len(structure) : structure[k].path = path

\* the children list of the node at path, in order
ChildrenOfNode(path) ==
    SelectSeq(structure,
              LAMBDA n : Len(n.path) = Len(path) + 1
                         /\ SubSeq(n.path, 1, Len(path)) = path)

\* an entry the build shows: no name on its path is hidden or a skipped
\* directory
Shown(e) ==
    /\ \A j \in 1..Len(e.path) : ~hidden(e.path[j])
    /\ \A j \in 1..(Len(e.path) - 1) : e.path[j] \notin skipped_dirs
    /\ ~e.is_file => BaseName(e.path) \notin skipped_dirs

\* C13: no node of the tree lies more than max_depth levels below the root
\* node, and what lies beyond the cap is absent, with no placeholder: every
\* node is the root or an entry of the layout, and when every directory is
\* readable the nodes are exactly the shown entries down to the cap.  With
\* max_depth = 1 over a root that can be listed and holds a/b/c/file.txt the
\* tree holds node a with an empty children list and no node b.
Thm_C13 ==
    /\ \A k \in 1..Len(structure) :
           /\ Len(structure[k].path) <= max_depth
           /\ structure[k].path # <<>> =>
                  [path |-> structure[k].path,
                   is_file |-> structure[k].type = "file"] \in tree_layout
    /\ (build_pc = "returned" /\ unreadable = {}) =>
           \A e \in tree_layout :
               HasNode(e.path) <=> (Shown(e) /\ Len(e.path) <= max_depth)
    /\ (/\ build_pc = "returned"
        /\ max_depth = 1
        /\ <<>> \notin unreadable
        /\ [path |-> <<n_a, n_b, n_c, n_file_txt>>, is_file |-> TRUE] \in tree_layout)
           => /\ HasNode(<<n_a>>)
              /\ ChildrenOfNode(<<n_a>>) = <<>>
              /\ ~HasNode(<<n_a, n_b>>)

\* the build returned with the cap at 2 over a/b/c/file.txt: a and a/b are
\* nodes, a/b/c is not
Witness_C13 ==
    /\ build_pc = "returned"
    /\ max_depth = 2
    /\ [path |-> <<n_a, n_b, n_c, n_file_txt>>, is_file |-> TRUE] \in tree_layout
    /\ HasNode(<<n_a, n_b>>)
    /\ ~HasNode(<<n_a, n_b, n_c>>)
    /\ ChildrenOfNode(<<n_a, n_b>>) = <<>>

\* C14: a permission error below the root does not fail the build; the
\* subtree that could not be read is left out of the tree, its own node
\* included, so that it does not look like a directory read and found
\* empty; every other shown entry down to the cap whose directories could be
\* read is in the tree.
Claim_C14 ==
    (build_pc = "returned" /\ perm_errors # {}) =>
        \A u \in perm_errors :
            /\ u # <<>> => ~HasNode(u)
            /\ \A e \in tree_layout :
                   (/\ Shown(e)
                    /\ Len(e.path) <= max_depth
                    /\ \A j \in 0..(Len(e.path) - 1) :
                           SubSeq(e.path, 1, j) \notin unreadable)
                       => HasNode(e.path)

(***************************************************************************)
(* Claims about the Python extraction.                                     *)
(***************************************************************************)

\* the definition nodes of the tree, in source order: the pre-order of the
\* syntax tree
DefNodes ==
    SelectSeq([i \in 1..Len(ast_tree) |-> i], LAMBDA i : ast_tree[i].kind \in DefKinds)

\* the nearest definition that encloses node i (0: none)
RECURSIVE EnclosingDef(_)
EnclosingDef(i) ==
    LET up == ParentOf(i) IN
    IF up = 0 THEN 0
    ELSE IF ast_tree[up].kind \in DefKinds THEN up
    ELSE EnclosingDef(up)

\* the node a record was made for
NodeAtLine(line) == CHOOSE i \in 1..Len(ast_tree) : lineno(i) = line

\* C15: structured mode emits one record per function, async function and
\* class definition, in pre-order of the syntax tree: a definition before
\* what is nested in it, and all of that before the definition's next
\* sibling (Foo, bar, baz for class Foo with method bar followed by baz).
Claim_C15 ==
    py_pc \in {"structured", "flat"} =>
        /\ Len(file_objects) = Len(DefNodes)
        /\ \A k \in 1..Len(file_objects) :
               /\ file_objects[k].code_start_line = lineno(DefNodes[k])
               /\ file_objects[k].name = ast_tree[DefNodes[k]].name

\* C16: every record of a nested definition has parent_name equal to the
\* name of its nearest enclosing definition, every top-level record has no
\* parent_name, and a function record whose parent_name names a class record
\* lies within that class's lines.
Claim_C16 ==
    py_pc \in {"structured", "flat"} =>
        \A k \in 1..Len(file_objects) :
            LET rec == file_objects[k]
                up == EnclosingDef(NodeAtLine(rec.code_start_line))
            IN  /\ up # 0 =>
                       /\ "parent_name" \in DOMAIN rec
                       /\ rec.parent_name = ast_tree[up].name
                       /\ lineno(up) <= rec.code_start_line
                       /\ rec.code_end_line <= end_lineno(up)
                /\ up = 0 => "parent_name" \notin DOMAIN rec

\* the position of the first record of the given kinds that carries the name
FirstAt(records, name) ==
    CHOOSE k \in 1..Len(records) :
        records[k] = name /\ \A j \in 1..(k - 1) : records[j] # name

\* names is what is left of all when every repeated name is dropped after
\* its first occurrence
FirstOccurrences(names, all) ==
    /\ {names[k] : k \in 1..Len(names)} = {all[k] : k \in 1..Len(all)}
    /\ \A i, j \in 1..Len(names) : i < j =>
           /\ names[i] # names[j]
           /\ FirstAt(all, names[i]) < FirstAt(all, names[j])

\* the names of the records that satisfy keep, in the order of the records
NamesWhere(keep(_)) ==
    LET sel == SelectSeq(file_objects, keep)
    IN  [k \in 1..Len(sel) |-> sel[k].name]

Claim_C18 ==
    (wf_pc \in {"END", "raised"} /\ stage = "error" /\ error # <<>>) =>
        /\ documentation.written
        /\ \E k \in 1..Len(documentation.error_report) :
               documentation.error_report[k] = error

====
